---- MODULE Spec2Model ----
(***************************************************************************)
(* Model of the blog's build-time pipeline:                                *)
(*   content collection -> getAllPosts -> sortMDByDate -> paginate         *)
(*     (pages/posts/[...page].astro and the home page), and                *)
(*   content collection -> og-image getStaticPaths -> GET (social cards).  *)
(*                                                                         *)
(* Dates are day numbers.  An optional front-matter field is a sequence    *)
(* of length 0 (undefined) or 1 (the value).  A slug is a string; the      *)
(* lexicographic order of the slugs in use is given by SlugOrder.          *)
(***************************************************************************)
EXTENDS Integers, Sequences, FiniteSets, TLC

(* ---------------------------- bounds ----------------------------------- *)

\* Largest number of pattern posts in the content collection.
MaxFill == 24
\* Largest number of posts whose cards are generated concurrently.
MaxConcurrentPosts == 3
\* Largest number of pattern posts that accompany a freely chosen post.
MaxFillWithFree == 2
\* Post dates (publishDate, updatedDate) range over 1..MaxDate.
MaxDate == 3
\* Number of distinct build instants ("new Date()" during a build).
MaxBuilds == 2
\* Slider values range over 0.1 .. MaxTenths/10 (the sliders end at 5).
MaxTenths == 10
\* Number of times the calendar embed is mounted.
MaxMounts == 3

(* ------------------------- program constants --------------------------- *)

MAX_POSTS_PER_PAGE == 10
MAX_POSTS == 10

(* ------------------------------ slugs ---------------------------------- *)

\* Slugs of the pattern posts, in collection (file system) order.
FillerSlugs ==
  <<
     "post-07", "post-14", "post-21", "post-01", "post-08", "post-15",
     "post-22", "post-02", "post-09", "post-16", "post-23", "post-03",
     "post-10", "post-17", "post-24", "post-04", "post-11", "post-18",
     "post-25", "post-05", "post-12", "post-19", "post-26", "post-06",
     "post-13", "post-20"
  >>

\* Slugs a freely chosen post may carry.  "index" is an ordinary file name
\* (src/content/post/index.md) and nothing in the collection excludes it.
FreeSlugs == {"index", "zebra"}

\* All slugs in ascending lexicographic (code unit) order.
SlugOrder ==
  <<
     "index", "post-01", "post-02", "post-03", "post-04", "post-05",
     "post-06", "post-07", "post-08", "post-09", "post-10", "post-11",
     "post-12", "post-13", "post-14", "post-15", "post-16", "post-17",
     "post-18", "post-19", "post-20", "post-21", "post-22", "post-23",
     "post-24", "post-25", "post-26", "zebra"
  >>

SlugRank(slug) == CHOOSE i \in 1..Len(SlugOrder) : SlugOrder[i] = slug

\* String.prototype.startsWith("/content"): slugs are URL-safe path
\* segments, hence none of the slugs in use begins with a slash.
ContentPrefixed == {"/content/post/index"}
startsWith_content(slug) == slug \in ContentPrefixed

(* ------------------------------ posts ---------------------------------- *)

Dates == 1..MaxDate
BuildTimes == (MaxDate + 1)..(MaxDate + MaxBuilds)

\* The i-th pattern post: its front-matter varies with i so that the
\* collection holds drafts, posts with an ogImage, updated posts and ties
\* of the effective date.
Filler(i) ==
  [ slug        |-> FillerSlugs[i],
    title       |-> "Post " \o FillerSlugs[i],
    publishDate |-> 1 + ((2 * i) % MaxDate),
    updatedDate |-> IF i % 4 = 0 THEN << 1 + (i % MaxDate) >> ELSE << >>,
    draft       |-> (i % 8 = 0),
    ogImage     |-> IF i % 6 = 0 THEN << "/social-card.png" >> ELSE << >>,
    description |-> IF i % 5 = 0 THEN << >>
                    ELSE << "About " \o FillerSlugs[i] >>,
    body        |-> "Body of " \o FillerSlugs[i] ]

FreePosts ==
  [ slug        : FreeSlugs,
    title       : {"", "Hello World"},
    publishDate : Dates,
    updatedDate : {<< >>} \cup { << d >> : d \in Dates },
    draft       : BOOLEAN,
    ogImage     : {<< >>, << "/social-card.png" >>},
    description : {<< "About a post" >>},
    body        : {"Body text"} ]

\* A title whose markup the rasterizer rejects (the title is spliced into
\* the html template as it is).
UNRENDERABLE_TITLE == "<img>"

\* A publishDate that is missing or does not parse as a date.
InvalidDate == 0 - 1

\* Posts with a title that cannot be rasterized, posts without a valid
\* publishDate.
BrokenPosts ==
  [ slug        : {"zebra"},
    title       : {UNRENDERABLE_TITLE},
    publishDate : {1},
    updatedDate : {<< >>},
    draft       : BOOLEAN,
    ogImage     : {<< >>, << "/social-card.png" >>},
    description : {<< "About a post" >>},
    body        : {"Body text"} ]
  \cup
  [ slug        : FreeSlugs,
    title       : {"Hello World"},
    publishDate : {InvalidDate},
    updatedDate : {<< >>, << 1 >>},
    draft       : BOOLEAN,
    ogImage     : {<< >>},
    description : {<< "About a post" >>},
    body        : {"Body text"} ]

Reverse(s) == [ i \in 1..Len(s) |-> s[Len(s) + 1 - i] ]

Fillers(n) == [ i \in 1..n |-> Filler(i) ]

\* The content collections the model starts from.
Stores ==
  LET plain == { Fillers(n) : n \in 0..MaxFill }
      mixed == UNION { { <<p>> \o Fillers(n), Fillers(n) \o <<p>> } :
                       n \in 0..MaxFillWithFree,
                       p \in FreePosts \cup BrokenPosts }
      base  == plain \cup mixed
  IN  base \cup { Reverse(s) : s \in base }

(* --------------------------- @/data/post ------------------------------- *)

\* a ?? b on an optional value a.
Nullish(a, b) == IF a = << >> THEN b ELSE a[1]

\* Effective date of a post: the update date if present, else the publish
\* date.
effectiveDate(post) ==
  IF Len(post.updatedDate) = 1 THEN post.updatedDate[1] ELSE post.publishDate

\* Variant: no entry is ever rejected.
invalidEntries_none(collection) == { }

\* Positions of the entries the collection schema rejects: those whose
\* publishDate is missing or unparsable.
invalidEntries(collection) ==
  { i \in DOMAIN collection : collection[i].publishDate \notin Dates }

\* The error a load of the collection raises, if any: the first rejected
\* entry fails the whole load and is named by its slug.
ContentValidationError(collection) ==
  LET bad == invalidEntries(collection)
  IN  IF bad = { } THEN << >>
      ELSE << [ kind |-> "ContentValidationError",
                slug |-> collection[CHOOSE i \in bad : \A j \in bad : i <= j].slug ] >>

\* Variant: a missing description becomes the site's description.
parseEntry_siteDefault(entry) ==
  [ entry EXCEPT !.description = Nullish(entry.description, "siteConfig.description") ]

\* The collection schema applied to one entry: a missing description
\* becomes the empty string; updatedDate stays optional.
parseEntry(entry) ==
  [ entry EXCEPT !.description = Nullish(entry.description, "") ]

\* getCollection("post"): every entry as the schema returns it.
getCollection(collection) ==
  [ i \in DOMAIN collection |-> parseEntry(collection[i]) ]

\* Variant: drafts are dropped in every context.
getAllPosts_alwaysFiltered(collection, prod) ==
  SelectSeq(getCollection(collection), LAMBDA post : ~post.draft)

\* getAllPosts(): the collection without its drafts in a production build,
\* the whole collection otherwise; collection order is kept.
getAllPosts(collection, prod) ==
  SelectSeq(getCollection(collection),
            LAMBDA post : IF prod THEN ~post.draft ELSE TRUE)

\* Variant: the comparator looks at the dates only.
comesBefore_datesOnly(a, b) == effectiveDate(a) > effectiveDate(b)

\* Comparator of sortMDByDate: later effective date first, equal dates by
\* slug ascending.
comesBefore(a, b) ==
  \/ effectiveDate(a) > effectiveDate(b)
  \/ /\ effectiveDate(a) = effectiveDate(b)
     /\ SlugRank(a.slug) < SlugRank(b.slug)

RECURSIVE insertSorted(_, _)
insertSorted(post, sorted) ==
  IF sorted = << >> THEN << post >>
  ELSE IF comesBefore(post, Head(sorted)) THEN << post >> \o sorted
  ELSE << Head(sorted) >> \o insertSorted(post, Tail(sorted))

RECURSIVE sortMDByDate(_)
sortMDByDate(posts) ==
  IF posts = << >> THEN << >>
  ELSE insertSorted(Head(posts), sortMDByDate(Tail(posts)))

(* ----------------------------- paginate -------------------------------- *)

Min(a, b) == IF a <= b THEN a ELSE b

\* paginate(data, { pageSize }): contiguous chunks of pageSize items, each
\* with its pagination metadata.
paginate(data, pageSize) ==
  LET lastPage == (Len(data) + pageSize - 1) \div pageSize
  IN  [ n \in 1..lastPage |->
        [ data        |-> SubSeq(data, (n - 1) * pageSize + 1,
                                 Min(n * pageSize, Len(data))),
          currentPage |-> n,
          lastPage    |-> lastPage,
          size        |-> pageSize,
          total       |-> Len(data),
          prev        |-> IF n > 1 THEN << n - 1 >> ELSE << >>,
          next        |-> IF n < lastPage THEN << n + 1 >> ELSE << >> ] ]

(* ------------------- pages/posts/[...page].astro ----------------------- *)

\* Variant: the route reads the collection itself, not getAllPosts().
Posts_getStaticPaths_rawCollection(collection, prod) ==
  paginate(sortMDByDate(collection), MAX_POSTS_PER_PAGE)

\* Variant: the route paginates the home page's slice of the posts.
Posts_getStaticPaths_sliced(collection, prod) ==
  LET sorted == sortMDByDate(getAllPosts(collection, prod))
  IN  paginate(SubSeq(sorted, 1, Min(MAX_POSTS_PER_PAGE, Len(sorted))),
               MAX_POSTS_PER_PAGE)

\* Variant: the route paginates the posts as loaded, unsorted.
Posts_getStaticPaths_unsorted(collection, prod) ==
  paginate(getAllPosts(collection, prod), MAX_POSTS_PER_PAGE)

Posts_getStaticPaths(collection, prod) ==
  LET allPosts       == getAllPosts(collection, prod)
      allPostsByDate == sortMDByDate(allPosts)
  IN  paginate(allPostsByDate, MAX_POSTS_PER_PAGE)

\* An anchor of a rendered page; page is the number of the listing page it
\* leads to, if it leads to one.
Anchor(href) == [ href |-> href, page |-> << >> ]

\* Variant: the template lists the posts of the page with their bodies.
Posts_page_withBodies(page) ==
  [ title    |-> "Home",
    previews |-> [ k \in DOMAIN page.data |->
                   [ title       |-> page.data[k].title,
                     date        |-> effectiveDate(page.data[k]),
                     description |-> page.data[k].body ] ],
    anchors  |-> << Anchor("mailto:raf.wilinski@gmail.com") >> ]

\* The template of the route: it takes page from Astro.props, logs it and
\* emits a fixed document; the previews list what is rendered of posts.
Posts_page(page) ==
  [ title    |-> "Home",
    previews |-> << >>,
    anchors  |-> << Anchor("https://vendr.com"),
                    Anchor("https://dynobase.dev"),
                    Anchor("/posts/generating-jsons-with-llm-beyond-basics/"),
                    Anchor("/posts/make-your-rag-suck-less/"),
                    Anchor("/posts/benchmarking-llms-for-structured-json-generation/"),
                    Anchor("mailto:raf.wilinski@gmail.com") >> ]

(* --------------------------- pages/index.astro ------------------------- *)

\* Variant: the first MAX_POSTS loaded posts are taken, then sorted.
Index_allPostsByDate_sliceFirst(collection, prod) ==
  LET allPosts == getAllPosts(collection, prod)
  IN  sortMDByDate(SubSeq(allPosts, 1, Min(MAX_POSTS, Len(allPosts))))

\* allPostsByDate of the home page (both versions of the page agree).
Index_allPostsByDate(collection, prod) ==
  LET allPosts == getAllPosts(collection, prod)
      sorted   == sortMDByDate(allPosts)
  IN  SubSeq(sorted, 1, Min(MAX_POSTS, Len(sorted)))

(* ---------------------- pages/og-image/[slug].png.ts ------------------ *)

SITE_TITLE == "siteConfig.title"
SITE_AUTHOR == "siteConfig.author"
INDEX_TITLE == "LLMs, RAGs, Agents and Applied AI"
INDEX_SLUG == "index"
\* new Date(2020, 1, 1) lies before every post date.
INDEX_PUBLISH_DATE == 0

ogOptions ==
  [ fonts  |-> << [ name |-> "Roboto Mono", style |-> "normal", weight |-> 400 ],
                  [ name |-> "Roboto Mono", style |-> "normal", weight |-> 700 ] >>,
    height |-> 630,
    width  |-> 1200 ]

\* Text content of an element: the empty string yields no text.
Text(str) == IF str = "" THEN << >> ELSE << str >>

\* markup(title, pubDate): the fixed layout; pubDate is already text.
markup(title, pubDate) ==
  << [ tag |-> "p",  tw |-> "text-2xl mb-6", text |-> pubDate ],
     [ tag |-> "h1", tw |-> "text-7xl font-bold leading-snug text-white",
       text |-> Text(title) ],
     [ tag |-> "p",  tw |-> "ml-3 font-semibold", text |-> Text(SITE_TITLE) ],
     [ tag |-> "p",  tw |-> "", text |-> << "by ", SITE_AUTHOR >> ] >>

\* getFormattedDate(date, { month: "long", weekday: "long" }).
getFormattedDate(date, month, weekday) ==
  [ day |-> date, month |-> month, weekday |-> weekday ]

\* satori(markup, ogOptions): the vector document.
satori(doc, options) ==
  [ svg |-> doc, width |-> options.width, height |-> options.height,
    fonts |-> options.fonts ]

\* new Resvg(svg).render().asPng(): the encoded bitmap.
asPng(svg) == [ png |-> svg ]

\* Variant: rendering rejects an empty title.
GET_throws_onEmptyTitle(props) ==
  props.title \in {UNRENDERABLE_TITLE, ""}

\* GET(context) throws: satori / Resvg reject the document, and GET has no
\* handler around them.
GET_throws(props) ==
  LET postDate == IF props.skipDate THEN << >>
                  ELSE << "//", getFormattedDate(props.pubDate, "long", "long") >>
      doc      == markup(props.title, postDate)
  IN  \E e \in DOMAIN doc :
        doc[e].tag = "h1" /\ doc[e].text = Text(UNRENDERABLE_TITLE)

\* Variant: the card is cacheable for an hour and may change.
GET_shortCache(props) ==
  LET postDate == IF props.skipDate THEN << >>
                  ELSE << "//", getFormattedDate(props.pubDate, "long", "long") >>
      png      == asPng(satori(markup(props.title, postDate), ogOptions))
  IN  [ status  |-> 200,
        headers |-> [ CacheControl |-> "public, max-age=3600",
                      ContentType  |-> "image/png" ],
        body    |-> << png >> ]

\* GET(context): the response for the props of one enumerated path.
GET(props) ==
  LET postDate == IF props.skipDate THEN << >>
                  ELSE << "//", getFormattedDate(props.pubDate, "long", "long") >>
      svg      == satori(markup(props.title, postDate), ogOptions)
      png      == asPng(svg)
  IN  [ status  |-> 200,
        headers |-> [ CacheControl |-> "public, max-age=31536000, immutable",
                      ContentType  |-> "image/png" ],
        body    |-> << png >> ]

\* Truthiness of data.ogImage (undefined, false and "" are falsy).
truthy(v) == v \notin { << >>, << "false" >>, << "" >> }

\* Variant: the synthetic entry declares a social image of its own.
indexEntry_withOgImage(now) ==
  [ slug        |-> INDEX_SLUG,
    title       |-> INDEX_TITLE,
    includeDate |-> FALSE,
    ogImage     |-> << "/social-card.png" >>,
    publishDate |-> INDEX_PUBLISH_DATE,
    updatedDate |-> << now >> ]

\* The synthetic entry of the home page; now is "new Date()".
indexEntry(now) ==
  [ slug        |-> INDEX_SLUG,
    title       |-> INDEX_TITLE,
    includeDate |-> FALSE,
    ogImage     |-> << "false" >>,
    publishDate |-> INDEX_PUBLISH_DATE,
    updatedDate |-> << now >> ]

\* Variant: the card date is the publish date, updates are ignored.
OgImage_getStaticPaths_publishDateOnly(collection, prod, now) ==
  LET posts    == getAllPosts(collection, prod)
      all      == posts \o << indexEntry(now) >>
      filtered == SelectSeq(all, LAMBDA post : ~truthy(post.ogImage))
  IN  [ i \in 1..Len(filtered) |->
        [ params |-> [ slug |-> filtered[i].slug ],
          props  |-> [ pubDate  |-> filtered[i].publishDate,
                       skipDate |-> ~startsWith_content(filtered[i].slug),
                       title    |-> filtered[i].title ] ] ]

\* Variant: the posts are not filtered by ogImage.
OgImage_getStaticPaths_unfiltered(collection, prod, now) ==
  LET posts    == getAllPosts(collection, prod)
      filtered == posts \o << indexEntry(now) >>
  IN  [ i \in 1..Len(filtered) |->
        [ params |-> [ slug |-> filtered[i].slug ],
          props  |-> [ pubDate  |-> Nullish(filtered[i].updatedDate,
                                            filtered[i].publishDate),
                       skipDate |-> ~startsWith_content(filtered[i].slug),
                       title    |-> filtered[i].title ] ] ]

\* Variant: skipDate lacks its negation, every card shows its date.
OgImage_getStaticPaths_datesShown(collection, prod, now) ==
  LET posts    == getAllPosts(collection, prod)
      all      == posts \o << indexEntry(now) >>
      filtered == SelectSeq(all, LAMBDA post : ~truthy(post.ogImage))
  IN  [ i \in 1..Len(filtered) |->
        [ params |-> [ slug |-> filtered[i].slug ],
          props  |-> [ pubDate  |-> Nullish(filtered[i].updatedDate,
                                            filtered[i].publishDate),
                       skipDate |-> startsWith_content(filtered[i].slug),
                       title    |-> filtered[i].title ] ] ]

\* getStaticPaths() of the social-card endpoint.
OgImage_getStaticPaths(collection, prod, now) ==
  LET posts    == getAllPosts(collection, prod)
      all      == posts \o << indexEntry(now) >>
      filtered == SelectSeq(all, LAMBDA post : ~truthy(post.ogImage))
  IN  [ i \in 1..Len(filtered) |->
        [ params |-> [ slug |-> filtered[i].slug ],
          props  |-> [ pubDate  |-> Nullish(filtered[i].updatedDate,
                                            filtered[i].publishDate),
                       skipDate |-> ~startsWith_content(filtered[i].slug),
                       title    |-> filtered[i].title ] ] ]

\* Response of the static router for a slug no enumerated path carries.
NotFound == [ status |-> 404, headers |-> [ CacheControl |-> "", ContentType |-> "" ],
              body |-> << >> ]

\* Response of the development server for a handler that threw.
ServerError == [ status |-> 500, headers |-> [ CacheControl |-> "", ContentType |-> "" ],
                 body |-> << >> ]

\* Slugs the clients ask cards for.
RequestSlugs ==
  FreeSlugs \cup { INDEX_SLUG, FillerSlugs[1], FillerSlugs[6], "no-such-post" }

(* ------------------- components/LLMJSONCharts.tsx ---------------------- *)

SchemaType == {"Complex JSON Schema", "Super Complex JSON Schema", "Wide JSON Schema"}
MetricType == {"cost", "successRate", "time"}

\* null of a MethodData field; the numbers of the table are not negative.
null == 0 - 1

\* One row of the table: cost and time in ten-thousandths, successRate in
\* percent.
MethodData(cost, name, successRate, time) ==
  [ cost |-> cost, name |-> name, successRate |-> successRate, time |-> time ]

\* The benchmark table of the module.
data ==
  [ schema \in SchemaType |->
      CASE schema = "Complex JSON Schema" ->
             << MethodData(1680, "gpt-4o-2024-08-06-non-strict-tool", 100, 40790854),
                MethodData(175,  "gpt-4o-mini-non-strict-json", 100, 58476183),
                MethodData(1528, "gpt-4o-2024-08-06-strict-json", 100, 58662200),
                MethodData(3026, "gpt-4o-2024-08-06-non-strict-json", 100, 63143933),
                MethodData(146,  "gpt-4o-mini-strict-json", 100, 78585114),
                MethodData(null, "gpt-4o-mini-non-strict-tool", 0, null) >>
        [] schema = "Super Complex JSON Schema" ->
             << MethodData(3004, "gpt-4o-2024-08-06-strict-json", 100, 107430250),
                MethodData(393,  "gpt-4o-mini-non-strict-json", 100, 128843888),
                MethodData(6619, "gpt-4o-2024-08-06-non-strict-json", 100, 130412693),
                MethodData(241,  "gpt-4o-mini-strict-json", 100, 132893869),
                MethodData(null, "gpt-4o-2024-08-06-non-strict-tool", 0, null),
                MethodData(null, "gpt-4o-mini-non-strict-tool", 0, null) >>
        [] schema = "Wide JSON Schema" ->
             << MethodData(78,   "gpt-4o-mini-non-strict-tool", 100, 29433405),
                MethodData(1313, "gpt-4o-2024-08-06-non-strict-tool", 100, 31495288),
                MethodData(115,  "gpt-4o-mini-non-strict-json", 100, 36030182),
                MethodData(1023, "gpt-4o-2024-08-06-strict-json", 100, 38528140),
                MethodData(1964, "gpt-4o-2024-08-06-non-strict-json", 100, 40655266),
                MethodData(60,   "gpt-4o-mini-strict-json", 100, 45308732) >> ]

\* Variant: every row of the selected schema is displayed.
chartData_unfiltered(table, selectedSchema, selectedMetric) ==
  table[selectedSchema]

\* chartData of a render: data[selectedSchema].filter(item =>
\* item[selectedMetric] !== null).
chartData(table, selectedSchema, selectedMetric) ==
  SelectSeq(table[selectedSchema], LAMBDA item : item[selectedMetric] # null)

\* A render of the component with the given selections.
JsonChartRender(table, selectedSchema, selectedMetric) ==
  [ data           |-> table,
    selectedSchema |-> selectedSchema,
    selectedMetric |-> selectedMetric,
    chartData      |-> chartData(table, selectedSchema, selectedMetric) ]

\* The component after its first render.
JsonSchemaPerformanceCharts ==
  JsonChartRender(data, "Complex JSON Schema", "time")

(* ----------------- components/LLMParallelProcessing -------------------- *)

\* Numbers of the component: fractions, compared by cross-multiplication;
\* a zero denominator stands for the outcome of a division by zero
\* (Infinity or NaN).
Frac(num, den) == [ num |-> num, den |-> den ]

Num(n) == Frac(n, 1)
Plus(a, b) == Frac(a.num * b.den + b.num * a.den, a.den * b.den)
Times(a, b) == Frac(a.num * b.num, a.den * b.den)
Over(a, b) == Frac(a.num * b.den, a.den * b.num)
LessThan(a, b) == a.num * b.den < b.num * a.den
Equals(a, b) == a.den # 0 /\ b.den # 0 /\ a.num * b.den = b.num * a.den

\* Slider.Root: min 0.1, max 5, step 0.1, defaultValue 1 (in tenths).
SLIDER_MIN == 1
SLIDER_MAX == 50
SLIDER_DEFAULT == 10

\* The values a slider hands to onValueChange.
SliderValues == { Frac(t, 10) : t \in SLIDER_MIN..Min(SLIDER_MAX, MaxTenths) }

\* Rows of the chart: n = 1..16.
SUBSCHEMAS == 16

\* Variant: the base cost is paid per subschema.
generateData_basePerSubschema(baseCost, schemaCost) ==
  [ n \in 1..SUBSCHEMAS |->
      LET totalCost  == Plus(Times(baseCost, Num(n)), schemaCost)
          speedup    == Over(Plus(baseCost, schemaCost),
                             Plus(baseCost, Over(schemaCost, Num(n))))
          efficiency == Over(speedup, totalCost)
      IN  [ subschemas |-> n, speedup |-> speedup, totalCost |-> totalCost,
            efficiency |-> efficiency ] ]

\* generateData() of the effect, for the baseCost and schemaCost of the
\* render that scheduled it.
generateData(baseCost, schemaCost) ==
  [ n \in 1..SUBSCHEMAS |->
      LET totalCost  == Plus(baseCost, Times(schemaCost, Num(n)))
          speedup    == Over(Plus(baseCost, schemaCost),
                             Plus(baseCost, Over(schemaCost, Num(n))))
          efficiency == Over(speedup, totalCost)
      IN  [ subschemas |-> n, speedup |-> speedup, totalCost |-> totalCost,
            efficiency |-> efficiency ] ]

\* The effect a render schedules: it closes over the render's costs.
Effect(baseCost, schemaCost) ==
  << [ baseCost |-> baseCost, schemaCost |-> schemaCost ] >>

\* The data after the scheduled effect, if any, has run.
Flushed(component) ==
  IF component.effect = << >> THEN component.data
  ELSE generateData(component.effect[1].baseCost, component.effect[1].schemaCost)

\* The component after its first render: no data yet, the effect scheduled.
LLMParallelProcessing ==
  [ baseCost   |-> Frac(SLIDER_DEFAULT, 10),
    schemaCost |-> Frac(SLIDER_DEFAULT, 10),
    data       |-> << >>,
    effect     |-> Effect(Frac(SLIDER_DEFAULT, 10), Frac(SLIDER_DEFAULT, 10)) ]

(* -------------------------- CalDotCom ---------------------------------- *)

\* The component before it is mounted: no run of the effect, no call.
CalDotCom == [ mounted |-> FALSE, runs |-> << >>, calls |-> << >> ]

\* cal(method, ...) issued by the run of the given mount.
CalCall(run, method) == [ run |-> run, method |-> method ]

(* ------------------------------ state ---------------------------------- *)

VARIABLES
  store,     \* the content collection "post", in collection order
  PROD,      \* import.meta.env.PROD
  listing,   \* result of the listing route's getStaticPaths
  rendered,  \* the listing pages as rendered, in page order
  home,      \* post list of the home page
  cardPaths, \* result of the social-card endpoint's getStaticPaths
  lastGet,   \* the latest card request: slug, matched props, response
  failure,   \* the error that ended the build, if any
  inflight,  \* per slug, the GET invocation suspended at or past its await
  jsonChart, \* state of JsonSchemaPerformanceCharts and the rows it displays
  parallel,  \* state of LLMParallelProcessing and its scheduled effect
  cal        \* mounts of CalDotCom and the calls issued to the Cal api

vars == << store, PROD, listing, rendered, home, cardPaths, lastGet, failure,
           inflight, jsonChart, parallel, cal >>

\* The state of the site's build and of its card endpoint.
siteVars == << store, PROD, listing, rendered, home, cardPaths, lastGet,
               failure, inflight >>

NotBuilt == [ built |-> FALSE, value |-> << >> ]
Built(v) == [ built |-> TRUE, value |-> v ]

NoRequest == [ slug |-> "", props |-> << >>, response |-> << >> ]

\* Slugs whose cards may be generated at the same time.
ConcurrentSlugs ==
  { FillerSlugs[i] : i \in 1..MaxConcurrentPosts } \cup { INDEX_SLUG }

Idle == [ pc |-> "idle", props |-> << >>, doc |-> << >>, response |-> << >> ]

Init ==
  /\ inflight = [ slug \in ConcurrentSlugs |-> Idle ]
  /\ store \in Stores
  /\ PROD \in BOOLEAN
  /\ listing = NotBuilt
  /\ rendered = << >>
  /\ home = NotBuilt
  /\ cardPaths = NotBuilt
  /\ lastGet = NoRequest
  /\ failure = << >>
  /\ jsonChart = JsonSchemaPerformanceCharts
  /\ parallel = LLMParallelProcessing
  /\ cal = CalDotCom

\* Variant: the posts are sorted in place, in the collection itself.
BuildListing_sortsInPlace ==
  /\ failure = << >>
  /\ ContentValidationError(store) = << >>
  /\ store' = sortMDByDate(store)
  /\ listing' = Built(Posts_getStaticPaths(store, PROD))
  /\ rendered' = [ n \in DOMAIN listing'.value |-> Posts_page(listing'.value[n]) ]
  /\ UNCHANGED << PROD, home, cardPaths, lastGet, failure, inflight, jsonChart, parallel, cal >>

\* The build evaluates getStaticPaths of pages/posts/[...page].astro and
\* renders the page of every path; a load that fails ends the build.
BuildListing ==
  /\ failure = << >>
  /\ IF ContentValidationError(store) # << >>
     THEN /\ failure' = ContentValidationError(store)
          /\ UNCHANGED << listing, rendered >>
     ELSE /\ listing' = Built(Posts_getStaticPaths(store, PROD))
          /\ rendered' = [ n \in DOMAIN listing'.value |->
                             Posts_page(listing'.value[n]) ]
          /\ UNCHANGED failure
  /\ UNCHANGED << store, PROD, home, cardPaths, lastGet, inflight, jsonChart, parallel, cal >>

\* The build renders pages/index.astro.
BuildHome ==
  /\ failure = << >>
  /\ IF ContentValidationError(store) # << >>
     THEN /\ failure' = ContentValidationError(store)
          /\ UNCHANGED home
     ELSE /\ home' = Built(Index_allPostsByDate(store, PROD))
          /\ UNCHANGED failure
  /\ UNCHANGED << store, PROD, listing, rendered, cardPaths, lastGet, inflight, jsonChart, parallel, cal >>

\* The build evaluates getStaticPaths of pages/og-image/[slug].png.ts at
\* some instant.
BuildCardPaths ==
  /\ failure = << >>
  /\ IF ContentValidationError(store) # << >>
     THEN /\ failure' = ContentValidationError(store)
          /\ UNCHANGED cardPaths
     ELSE /\ \E now \in BuildTimes :
               cardPaths' = Built(OgImage_getStaticPaths(store, PROD, now))
          /\ UNCHANGED failure
  /\ UNCHANGED << store, PROD, listing, rendered, home, lastGet, inflight, jsonChart, parallel, cal >>

\* A card is requested: the router serves GET for an enumerated path with
\* that slug (any of them when several carry it) and not-found otherwise.
\* An exception GET lets escape ends a production build (the cards are
\* rendered while it runs); the development server answers it with 500.
RequestCard ==
  /\ failure = << >>
  /\ cardPaths.built
  /\ \E slug \in RequestSlugs :
       LET paths   == cardPaths.value
           matches == { i \in 1..Len(paths) : paths[i].params.slug = slug }
       IN  IF matches = {}
           THEN /\ lastGet' = [ slug |-> slug, props |-> << >>,
                                response |-> << NotFound >> ]
                /\ UNCHANGED failure
           ELSE \E i \in matches :
                  IF GET_throws(paths[i].props)
                  THEN /\ lastGet' = [ slug |-> slug, props |-> << paths[i].props >>,
                                       response |-> IF PROD THEN << >>
                                                    ELSE << ServerError >> ]
                       /\ failure' = IF PROD
                                     THEN << [ kind |-> "RenderError", slug |-> slug ] >>
                                     ELSE failure
                  ELSE /\ lastGet' = [ slug |-> slug, props |-> << paths[i].props >>,
                                       response |-> << GET(paths[i].props) >> ]
                       /\ UNCHANGED failure
  /\ UNCHANGED << store, PROD, listing, rendered, home, cardPaths, inflight, jsonChart, parallel, cal >>

Next ==
  \/ BuildListing
  \/ BuildHome
  \/ BuildCardPaths
  \/ RequestCard

Spec == Init /\ [][Next]_vars

(* ------------------- concurrent card generation ------------------------ *)

\* new Response(png, { headers }) of GET.
Response(png) ==
  [ status  |-> 200,
    headers |-> [ CacheControl |-> "public, max-age=31536000, immutable",
                  ContentType  |-> "image/png" ],
    body    |-> << png >> ]

\* The card paths exist and the cards of several posts are generated at
\* the same time.
InitConcurrent ==
  /\ inflight = [ slug \in ConcurrentSlugs |-> Idle ]
  /\ store \in { Fillers(n) : n \in 0..MaxConcurrentPosts }
              \cup { Reverse(Fillers(n)) : n \in 0..MaxConcurrentPosts }
  /\ PROD \in BOOLEAN
  /\ listing = NotBuilt
  /\ rendered = << >>
  /\ home = NotBuilt
  /\ \E now \in BuildTimes :
       cardPaths = Built(OgImage_getStaticPaths(store, PROD, now))
  /\ lastGet = NoRequest
  /\ failure = << >>
  /\ jsonChart = JsonSchemaPerformanceCharts
  /\ parallel = LLMParallelProcessing
  /\ cal = CalDotCom

\* GET up to its await: the props are read, the date text and the markup
\* are built, satori is called and the invocation is suspended.
StartGET(slug) ==
  /\ failure = << >>
  /\ inflight[slug].pc = "idle"
  /\ \E i \in { j \in DOMAIN cardPaths.value :
                   cardPaths.value[j].params.slug = slug } :
       LET props    == cardPaths.value[i].props
           postDate == IF props.skipDate THEN << >>
                       ELSE << "//", getFormattedDate(props.pubDate, "long", "long") >>
       IN  /\ inflight' = [ inflight EXCEPT ![slug] =
                              [ pc |-> "await", props |-> << props >>,
                                doc |-> << markup(props.title, postDate) >>,
                                response |-> << >> ] ]
           /\ lastGet' = [ slug |-> slug, props |-> << props >>, response |-> << >> ]
  /\ UNCHANGED << store, PROD, listing, rendered, home, cardPaths, failure, jsonChart, parallel, cal >>

\* Variant: the markup lives in module scope, where the invocation started
\* last has left its own.
ResumeGET_sharedMarkup(slug) ==
  /\ failure = << >>
  /\ inflight[slug].pc = "await"
  /\ LET response == Response(asPng(satori(markup(lastGet.props[1].title, << >>),
                                           ogOptions)))
     IN  /\ inflight' = [ inflight EXCEPT ![slug].pc = "done",
                                          ![slug].response = << response >> ]
         /\ lastGet' = [ slug |-> slug, props |-> inflight[slug].props,
                         response |-> << response >> ]
  /\ UNCHANGED << store, PROD, listing, rendered, home, cardPaths, failure, jsonChart, parallel, cal >>

\* GET from its await on: satori has resolved, the bitmap is rendered and
\* the Response returned; an exception escapes as in RequestCard.
ResumeGET(slug) ==
  /\ failure = << >>
  /\ inflight[slug].pc = "await"
  /\ IF GET_throws(inflight[slug].props[1])
     THEN /\ inflight' = [ inflight EXCEPT ![slug].pc = "thrown" ]
          /\ lastGet' = [ slug |-> slug, props |-> inflight[slug].props,
                          response |-> IF PROD THEN << >> ELSE << ServerError >> ]
          /\ failure' = IF PROD
                        THEN << [ kind |-> "RenderError", slug |-> slug ] >>
                        ELSE failure
     ELSE LET response == Response(asPng(satori(inflight[slug].doc[1], ogOptions)))
          IN  /\ inflight' = [ inflight EXCEPT ![slug].pc = "done",
                                               ![slug].response = << response >> ]
              /\ lastGet' = [ slug |-> slug, props |-> inflight[slug].props,
                              response |-> << response >> ]
              /\ UNCHANGED failure
  /\ UNCHANGED << store, PROD, listing, rendered, home, cardPaths, jsonChart, parallel, cal >>

NextConcurrent ==
  \/ \E slug \in ConcurrentSlugs : StartGET(slug)
  \/ \E slug \in ConcurrentSlugs : ResumeGET(slug)

SpecConcurrent == InitConcurrent /\ [][NextConcurrent]_vars

(* --------------------- the benchmark chart and Cal --------------------- *)

\* Nothing of the site is built or requested.
SiteIdle ==
  /\ inflight = [ slug \in ConcurrentSlugs |-> Idle ]
  /\ store = << >>
  /\ PROD = TRUE
  /\ listing = NotBuilt
  /\ rendered = << >>
  /\ home = NotBuilt
  /\ cardPaths = NotBuilt
  /\ lastGet = NoRequest
  /\ failure = << >>

InitWidgets ==
  /\ SiteIdle
  /\ jsonChart = JsonSchemaPerformanceCharts
  /\ parallel = LLMParallelProcessing
  /\ cal = CalDotCom

\* Variant: a change of schema puts the metric back to "time".
handleSchemaChange_resetsMetric(value) ==
  /\ jsonChart' = JsonChartRender(jsonChart.data, value, "time")
  /\ UNCHANGED << siteVars, parallel, cal >>

\* handleSchemaChange: setSelectedSchema(event.target.value) and the render
\* that follows.
handleSchemaChange(value) ==
  /\ jsonChart' = JsonChartRender(jsonChart.data, value, jsonChart.selectedMetric)
  /\ UNCHANGED << siteVars, parallel, cal >>

\* handleMetricChange: setSelectedMetric(event.target.value) and the render
\* that follows.
handleMetricChange(value) ==
  /\ jsonChart' = JsonChartRender(jsonChart.data, jsonChart.selectedSchema, value)
  /\ UNCHANGED << siteVars, parallel, cal >>

\* The component is mounted and its effect runs: the async function is
\* called and suspends at await getCalApi(...).
CalDotCom_mount ==
  /\ ~cal.mounted
  /\ Len(cal.runs) < MaxMounts
  /\ cal' = [ cal EXCEPT !.mounted = TRUE, !.runs = Append(@, "awaiting") ]
  /\ UNCHANGED << siteVars, jsonChart, parallel >>

\* The component is unmounted; the effect returns no cleanup.
CalDotCom_unmount ==
  /\ cal.mounted
  /\ cal' = [ cal EXCEPT !.mounted = FALSE ]
  /\ UNCHANGED << siteVars, jsonChart, parallel >>

\* The promise of getCalApi is fulfilled with the api handle.
getCalApi_resolves(run) ==
  /\ run \in DOMAIN cal.runs
  /\ cal.runs[run] = "awaiting"
  /\ cal' = [ cal EXCEPT !.runs[run] = "resolved" ]
  /\ UNCHANGED << siteVars, jsonChart, parallel >>

\* The promise of getCalApi is rejected: the async function ends there.
getCalApi_rejects(run) ==
  /\ run \in DOMAIN cal.runs
  /\ cal.runs[run] = "awaiting"
  /\ cal' = [ cal EXCEPT !.runs[run] = "rejected" ]
  /\ UNCHANGED << siteVars, jsonChart, parallel >>

\* Variant: the ui is configured before the floating button.
CalDotCom_resume_uiFirst(run) ==
  /\ run \in DOMAIN cal.runs
  /\ cal.runs[run] = "resolved"
  /\ cal' = [ cal EXCEPT !.runs[run] = "configured",
                         !.calls = @ \o << CalCall(run, "ui"),
                                           CalCall(run, "floatingButton") >> ]
  /\ UNCHANGED << siteVars, jsonChart, parallel >>

\* The async function resumes after its await and issues its two calls.
CalDotCom_resume(run) ==
  /\ run \in DOMAIN cal.runs
  /\ cal.runs[run] = "resolved"
  /\ cal' = [ cal EXCEPT !.runs[run] = "configured",
                         !.calls = @ \o << CalCall(run, "floatingButton"),
                                           CalCall(run, "ui") >> ]
  /\ UNCHANGED << siteVars, jsonChart, parallel >>

NextWidgets ==
  \/ \E value \in SchemaType : handleSchemaChange(value)
  \/ \E value \in MetricType : handleMetricChange(value)
  \/ CalDotCom_mount
  \/ CalDotCom_unmount
  \/ \E run \in 1..MaxMounts : getCalApi_resolves(run)
  \/ \E run \in 1..MaxMounts : getCalApi_rejects(run)
  \/ \E run \in 1..MaxMounts : CalDotCom_resume(run)

SpecWidgets == InitWidgets /\ [][NextWidgets]_vars

(* ------------------------ the parallel chart --------------------------- *)

\* onValueChange of the first slider: setBaseCost(values[0]); an effect
\* still scheduled runs before the render, the render schedules the next.
setBaseCost(value) ==
  /\ value # parallel.baseCost
  /\ parallel' = [ baseCost   |-> value,
                   schemaCost |-> parallel.schemaCost,
                   data       |-> Flushed(parallel),
                   effect     |-> Effect(value, parallel.schemaCost) ]
  /\ UNCHANGED << siteVars, jsonChart, cal >>

\* Variant: the effect depends on baseCost only.
setSchemaCost_noEffect(value) ==
  /\ value # parallel.schemaCost
  /\ parallel' = [ baseCost   |-> parallel.baseCost,
                   schemaCost |-> value,
                   data       |-> Flushed(parallel),
                   effect     |-> << >> ]
  /\ UNCHANGED << siteVars, jsonChart, cal >>

\* onValueChange of the second slider: setSchemaCost(values[0]).
setSchemaCost(value) ==
  /\ value # parallel.schemaCost
  /\ parallel' = [ baseCost   |-> parallel.baseCost,
                   schemaCost |-> value,
                   data       |-> Flushed(parallel),
                   effect     |-> Effect(parallel.baseCost, value) ]
  /\ UNCHANGED << siteVars, jsonChart, cal >>

\* The scheduled effect runs: generateData() and setData(newData); the
\* render that follows has the same dependencies and schedules nothing.
runEffect ==
  /\ parallel.effect # << >>
  /\ parallel' = [ parallel EXCEPT !.data = Flushed(parallel), !.effect = << >> ]
  /\ UNCHANGED << siteVars, jsonChart, cal >>

NextParallel ==
  \/ \E value \in SliderValues : setBaseCost(value)
  \/ \E value \in SliderValues : setSchemaCost(value)
  \/ runEffect

\* A scheduled effect is run.
SpecParallel == InitWidgets /\ [][NextParallel]_vars /\ WF_vars(runEffect)

(* ----------------------------- properties ------------------------------ *)

RECURSIVE Flatten(_)
Flatten(pages) ==
  IF pages = << >> THEN << >> ELSE Head(pages).data \o Flatten(Tail(pages))

\* The posts of all listing pages, in page order.
Listed == Flatten(listing.value)

\* Posts of the collection that a load in the current context returns.
Loaded == { i \in DOMAIN store : PROD => ~store[i].draft }

DraftSlugs == { store[i].slug : i \in { j \in DOMAIN store : store[j].draft } }

\* C1: in a production build no draft post appears on any listing page nor
\* in the home page's post list.
C1_DraftsNeverListed ==
  PROD =>
    /\ \A k \in DOMAIN Listed :
         ~Listed[k].draft /\ Listed[k].slug \notin DraftSlugs
    /\ \A k \in DOMAIN home.value :
         ~home.value[k].draft /\ home.value[k].slug \notin DraftSlugs

\* C1 witness: a production build of a collection with a draft and a
\* published post has produced a non-empty listing and a non-empty home list.
C1_Witness ==
  /\ PROD /\ listing.built /\ home.built
  /\ DraftSlugs # {}
  /\ Len(Listed) > 0 /\ Len(home.value) > 0

\* C2: the listing has ceil(n / pageSize) pages for n loaded posts; every
\* page but the last holds pageSize posts and the last holds n mod pageSize
\* posts, or pageSize when pageSize divides n.
C2_PageCountAndSizes ==
  listing.built =>
    LET n        == Cardinality(Loaded)
        pages    == listing.value
        pageSize == MAX_POSTS_PER_PAGE
        count    == (n + pageSize - 1) \div pageSize
    IN  /\ Len(pages) = count
        /\ \A k \in 1..(count - 1) : Len(pages[k].data) = pageSize
        /\ count > 0 =>
             Len(pages[count].data) =
               IF n % pageSize = 0 THEN pageSize ELSE n % pageSize

\* C2 witness: a listing of three pages whose last page is shorter.
C2_Witness ==
  /\ listing.built
  /\ Len(listing.value) = 3
  /\ Len(listing.value[3].data) \in 1..(MAX_POSTS_PER_PAGE - 1)

\* C3: page N holds the posts at offsets (N-1)*pageSize .. N*pageSize-1 of
\* the sorted post sequence, in that order, and the pages concatenated in
\* page order are the sorted sequence.
C3_PagesAreSlices ==
  listing.built =>
    LET sorted   == sortMDByDate(getAllPosts(store, PROD))
        pages    == listing.value
        pageSize == MAX_POSTS_PER_PAGE
    IN  /\ \A n \in DOMAIN pages :
             /\ pages[n].currentPage = n
             /\ \A k \in 1..pageSize :
                  LET offset == (n - 1) * pageSize + k
                  IN  IF offset <= Len(sorted)
                      THEN /\ k \in DOMAIN pages[n].data
                           /\ pages[n].data[k] = sorted[offset]
                      ELSE k \notin DOMAIN pages[n].data
             /\ Len(pages[n].data) <= pageSize
        /\ Listed = sorted
        /\ Cardinality({ Listed[k].slug : k \in DOMAIN Listed }) = Cardinality(Loaded)

\* C3 witness: a listing of at least two pages, the second one not empty.
C3_Witness ==
  /\ listing.built
  /\ Len(listing.value) >= 2
  /\ Len(listing.value[2].data) > 0
  /\ Len(Listed) > MAX_POSTS_PER_PAGE

\* C4: the listed posts are in descending order of effective date.
C4_DescendingByEffectiveDate ==
  listing.built =>
    \A j, k \in DOMAIN Listed :
      j < k => Nullish(Listed[j].updatedDate, Listed[j].publishDate)
                 >= Nullish(Listed[k].updatedDate, Listed[k].publishDate)

\* C4 witness: three listed posts with three different effective dates
\* that the collection holds in another order.
C4_Witness ==
  /\ listing.built
  /\ Cardinality({ effectiveDate(Listed[k]) : k \in DOMAIN Listed }) >= 3
  /\ \E i, j \in DOMAIN store :
       i < j /\ effectiveDate(store[i]) < effectiveDate(store[j])
       /\ ~store[i].draft /\ ~store[j].draft

\* C5: listed posts with equal effective dates are in ascending slug order,
\* and the listing is the same whatever order the collection holds the
\* posts in.
C5_TiesBySlugOrderIndependent ==
  listing.built =>
    /\ \A j, k \in DOMAIN Listed :
         (j < k /\ effectiveDate(Listed[j]) = effectiveDate(Listed[k]))
           => SlugRank(Listed[j].slug) < SlugRank(Listed[k].slug)
    /\ listing.value = Posts_getStaticPaths(Reverse(store), PROD)

\* C5 witness: two listed posts share their effective date and the
\* collection holds them with the larger slug first.
C5_Witness ==
  /\ listing.built
  /\ \E i, j \in DOMAIN store :
       /\ i < j
       /\ effectiveDate(store[i]) = effectiveDate(store[j])
       /\ SlugRank(store[i].slug) > SlugRank(store[j].slug)
       /\ \E a, b \in DOMAIN Listed :
            Listed[a].slug = store[i].slug /\ Listed[b].slug = store[j].slug

\* The enumerated card paths and the ones that stem from a post (the
\* synthetic entry is the one that carries the home page's title).
Paths == cardPaths.value
PostPaths == { j \in DOMAIN Paths : Paths[j].props.title # INDEX_TITLE }
IndexPaths == { j \in DOMAIN Paths :
                  /\ Paths[j].params.slug = INDEX_SLUG
                  /\ Paths[j].props.title = INDEX_TITLE }

\* Card paths of the post the collection holds at position i.
PathsOf(i) == { j \in DOMAIN Paths :
                  /\ Paths[j].params.slug = store[i].slug
                  /\ Paths[j].props.title = store[i].title }

\* Dates handed to the card paths of a post.
CardDates(post) ==
  { Paths[j].props.pubDate :
      j \in { k \in PostPaths : /\ Paths[k].params.slug = post.slug
                                /\ Paths[k].props.title = post.title } }

\* C6: the date handed to a post's card is the post's updatedDate when
\* present and its publishDate otherwise, and the listing is ordered by
\* that same date.
C6_CardDateIsOrderingKey ==
  /\ cardPaths.built =>
       \A i \in Loaded : \A j \in PathsOf(i) :
         Paths[j].props.pubDate =
           IF store[i].updatedDate # << >> THEN store[i].updatedDate[1]
           ELSE store[i].publishDate
  /\ (cardPaths.built /\ listing.built) =>
       \A a, b \in DOMAIN Listed :
         a < b => \A x \in CardDates(Listed[a]) : \A y \in CardDates(Listed[b]) :
                    x >= y

\* C6 witness: the listing and the card paths are built for a collection
\* with an updated post and a never updated post, both listed and both
\* with a card path, whose publish dates order them the other way round.
C6_Witness ==
  /\ cardPaths.built /\ listing.built
  /\ \E i, k \in Loaded :
       /\ store[i].updatedDate # << >>
       /\ store[k].updatedDate = << >>
       /\ store[i].updatedDate[1] > store[k].publishDate
       /\ store[i].publishDate < store[k].publishDate
       /\ PathsOf(i) # {} /\ PathsOf(k) # {}

\* C7: the card enumeration holds one entry for every loaded post without
\* ogImage, under the post's slug and title, no entry for a post with
\* ogImage, and one synthetic "index" entry; its slugs are the slugs of
\* the loaded posts without ogImage plus "index".
C7_CardEnumeration ==
  cardPaths.built =>
    /\ \A i \in Loaded :
         IF truthy(store[i].ogImage) THEN PathsOf(i) = {}
         ELSE Cardinality(PathsOf(i)) = 1
    /\ \A j \in PostPaths : \E i \in Loaded : j \in PathsOf(i)
    /\ Cardinality(IndexPaths) = 1
    /\ DOMAIN Paths = PostPaths \cup IndexPaths
    /\ { Paths[j].params.slug : j \in DOMAIN Paths }
         = { store[i].slug : i \in { l \in Loaded : ~truthy(store[l].ogImage) } }
           \cup { INDEX_SLUG }
    /\ Len(Paths) = Cardinality({ l \in Loaded : ~truthy(store[l].ogImage) }) + 1

\* C7 witness: the enumeration is built for a collection that holds loaded
\* posts with and without ogImage.
C7_Witness ==
  /\ cardPaths.built
  /\ \E i, k \in Loaded : truthy(store[i].ogImage) /\ ~truthy(store[k].ogImage)
  /\ Len(Paths) >= 2

\* C8 (as claimed): a request for the card of a post with ogImage set is
\* answered not-found, without a card.
C8_OgImagePostsNotFound ==
  \A i \in DOMAIN store :
    (truthy(store[i].ogImage) /\ lastGet.slug = store[i].slug)
      => /\ lastGet.response[1].status = 404
         /\ lastGet.response[1].body = << >>

\* The latest request was answered with a card.
Served == lastGet.response # << >> /\ lastGet.response[1].status = 200

\* Date line of a served card: the elements of the document that hold the
\* date paragraph, and the text they show.
CardDoc(response) == response.body[1].png.svg
DateLines(response) ==
  { e \in DOMAIN CardDoc(response) : CardDoc(response)[e].tw = "text-2xl mb-6" }

\* C9 (as claimed): the card served for a post shows the post's effective
\* date; only the card of the synthetic "index" entry shows no date.
C9_CardCarriesDate ==
  Served =>
    LET response == lastGet.response[1]
        props    == lastGet.props[1]
    IN  props.title # INDEX_TITLE =>
          \E e \in DateLines(response) :
            /\ Len(CardDoc(response)[e].text) = 2
            /\ CardDoc(response)[e].text[2].day = props.pubDate

\* C9, second half (as claimed): a card generated without a date has no
\* date line at all, not an empty one.
C9_DateLineOmitted ==
  Served =>
    \A e \in DateLines(lastGet.response[1]) :
      CardDoc(lastGet.response[1])[e].text # << >>

\* C10: a card generated again for the same title and date, in the same or
\* in a later build, is identical to the one served before; the card of
\* the home page is the same in every build.
C10_CardsDeterministic ==
  (cardPaths.built /\ lastGet.props # << >>) =>
    \A j \in DOMAIN Paths :
      ( \/ /\ Paths[j].props.title = lastGet.props[1].title
           /\ Paths[j].props.pubDate = lastGet.props[1].pubDate
        \/ /\ Paths[j].props.title = INDEX_TITLE
           /\ lastGet.props[1].title = INDEX_TITLE )
      => IF GET_throws(Paths[j].props) THEN ~Served
         ELSE Served /\ GET(Paths[j].props) = lastGet.response[1]

\* C10 witness: the home page's card was served from one build and the
\* card paths have since been rebuilt at another instant.
C10_Witness ==
  /\ cardPaths.built
  /\ lastGet.props # << >>
  /\ lastGet.props[1].title = INDEX_TITLE
  /\ \E j \in IndexPaths : Paths[j].props.pubDate # lastGet.props[1].pubDate

\* C11: every successful response of the social-card endpoint is a PNG
\* that is publicly cacheable, immutable, for one year.
C11_SuccessHeaders ==
  Served =>
    /\ lastGet.response[1].headers.ContentType = "image/png"
    /\ lastGet.response[1].headers.CacheControl
         = "public, max-age=31536000, immutable"
    /\ Len(lastGet.response[1].body) = 1

\* C11 witness: a post's card has been served.
C11_Witness ==
  /\ Served
  /\ lastGet.props[1].title # INDEX_TITLE

\* The latest card generation failed: GET threw for the matched path.
RenderFailed == lastGet.props # << >> /\ GET_throws(lastGet.props[1])

\* C12 (as claimed): a card whose rasterization fails is answered with a
\* server error for that card alone, and the build goes on to generate
\* the other cards and pages.
C12_RenderFailureIsolated ==
  RenderFailed =>
    /\ lastGet.response = << ServerError >>
    /\ failure = << >>

\* Slugs that have a card: the loaded posts without ogImage and "index".
CardSlugs ==
  { store[i].slug : i \in { l \in Loaded : ~truthy(store[l].ogImage) } }
    \cup { INDEX_SLUG }

\* C13: a request for a slug that is absent or not enumerated is answered
\* not-found; it neither ends the process nor touches what the build has
\* produced for others.
C13_UnknownSlugNotFound ==
  [][ (lastGet' # lastGet /\ lastGet'.slug \notin CardSlugs)
        => /\ lastGet'.response = << NotFound >>
           /\ lastGet'.props = << >>
           /\ failure' = << >>
           /\ UNCHANGED << store, PROD, listing, rendered, home, cardPaths, jsonChart, parallel, cal >> ]_vars

\* C13 witness: a slug no post carries was requested after a card had been
\* served, and answered not-found.
C13_Witness ==
  /\ lastGet.slug = "no-such-post"
  /\ lastGet.response = << NotFound >>
  /\ store # << >>
  /\ failure = << >>

\* Slugs of the posts whose publishDate is missing or unparsable.
OffendingSlugs ==
  { store[i].slug : i \in { j \in DOMAIN store : store[j].publishDate \notin 1..MaxDate } }

\* C14: when a post of the collection has no valid publishDate, every load
\* fails with a ContentValidationError naming that post, and no listing,
\* home list or card enumeration is ever produced.
C14_InvalidDateFailsLoad ==
  OffendingSlugs # { } =>
    /\ ~listing.built /\ ~home.built /\ ~cardPaths.built
    /\ failure # << >> =>
         /\ failure[1].kind = "ContentValidationError"
         /\ failure[1].slug \in OffendingSlugs

\* C14 witness: a load of a collection with valid posts and one post
\* without a valid publishDate has failed, naming that post.
C14_Witness ==
  /\ failure # << >>
  /\ failure[1].kind = "ContentValidationError"
  /\ failure[1].slug \in OffendingSlugs
  /\ Len(store) >= 2
  /\ ~listing.built

\* Texts of the elements of a served card that carry the given classes.
TextsOf(response, tw) ==
  { CardDoc(response)[e].text :
      e \in { d \in DOMAIN CardDoc(response) : CardDoc(response)[d].tw = tw } }

C16_ConcurrentAsSequential ==
  \A slug \in ConcurrentSlugs :
    inflight[slug].pc = "done" =>
      \E j \in DOMAIN Paths :
        /\ Paths[j].params.slug = slug
        /\ inflight[slug].props = << Paths[j].props >>
        /\ inflight[slug].response = << GET(Paths[j].props) >>

\* C16 witness: the generation of one post's card ran to its end while
\* that of another post was suspended at its await, and a third card is
\* finished as well.
C16_Witness ==
  \E a, b, c \in ConcurrentSlugs :
    /\ a # b /\ b # c /\ a # c
    /\ inflight[a].pc = "done" /\ lastGet.slug = a /\ lastGet.response # << >>
    /\ inflight[b].pc = "await"
    /\ inflight[c].pc = "done"
    /\ inflight[a].response # inflight[c].response

\* C17: a production load returns exactly the posts that are not drafts;
\* a development load returns every post of the collection, drafts
\* included.
C17_LoaderContextToggle ==
  LET all       == { store[i].slug : i \in DOMAIN store }
      published == { store[i].slug : i \in { j \in DOMAIN store : ~store[j].draft } }
      expected  == IF PROD THEN published ELSE all
  IN  /\ listing.built =>
           { Listed[k].slug : k \in DOMAIN Listed } = expected
      /\ home.built =>
           /\ { home.value[k].slug : k \in DOMAIN home.value } \subseteq expected
           /\ Len(home.value) = Min(MAX_POSTS, Cardinality(expected))
      /\ cardPaths.built =>
           { Paths[j].params.slug : j \in PostPaths } \subseteq expected

\* C17 witness: a development build lists a draft next to a published post.
C17_Witness ==
  /\ ~PROD
  /\ listing.built
  /\ \E j, k \in DOMAIN Listed : Listed[j].draft /\ ~Listed[k].draft

\* Card paths that stem from posts, as slug and props.
PostPathSet(paths) ==
  { << paths[j].params.slug, paths[j].props >> :
      j \in { k \in DOMAIN paths : paths[k].props.title # INDEX_TITLE } }

\* C18: no operation changes the collection or a field of a post: the
\* listed posts are the records of the collection, every step leaves the
\* collection as it is, and a repeated load yields the same posts.
C18_PostsImmutable ==
  /\ [] ( /\ \A k \in DOMAIN Listed :
               \E i \in DOMAIN store : parseEntry(store[i]) = Listed[k]
          /\ \A k \in DOMAIN home.value :
               \E i \in DOMAIN store : parseEntry(store[i]) = home.value[k] )
  /\ [][ /\ store' = store
         /\ PROD' = PROD
         /\ listing.built => listing' = listing
         /\ home.built => home' = home
         /\ (cardPaths.built /\ cardPaths'.built) =>
              PostPathSet(cardPaths'.value) = PostPathSet(cardPaths.value) ]_vars

\* C18 witness: the listing, the home list and the card paths are built
\* and a card is served for a collection that is not in listing order.
C18_Witness ==
  /\ listing.built /\ home.built /\ cardPaths.built
  /\ Served
  /\ Len(store) >= 2
  /\ \E i \in DOMAIN Listed : Listed[i].slug # store[i].slug

\* Listing pages a rendered page links to.
LinkedPages(html) ==
  { html.anchors[a].page[1] :
      a \in { b \in DOMAIN html.anchors : html.anchors[b].page # << >> } }

\* C19 (as claimed): listing page n links to page n-1 exactly when n > 1
\* and to page n+1 exactly when n is less than the number of pages.
C19_PrevNextLinks ==
  listing.built =>
    \A n \in DOMAIN rendered :
      /\ (n - 1) \in LinkedPages(rendered[n]) <=> n > 1
      /\ (n + 1) \in LinkedPages(rendered[n]) <=> n < Len(rendered)

\* A loaded post carries the front-matter of its entry with the optional
\* fields normalised.
NormalisedFrom(post, entry) ==
  /\ post.slug = entry.slug
  /\ post.description = IF entry.description = << >> THEN ""
                        ELSE entry.description[1]
  /\ entry.updatedDate = << >> => effectiveDate(post) = entry.publishDate
  /\ entry.updatedDate # << >> => effectiveDate(post) = entry.updatedDate[1]

\* C21: every post the loader returns has a description, the empty one if
\* its entry has none, and its effective date is its publishDate if the
\* entry has no updatedDate.
C21_OptionalFieldsNormalised ==
  /\ \A k \in DOMAIN Listed :
       \E i \in DOMAIN store : NormalisedFrom(Listed[k], store[i])
  /\ \A k \in DOMAIN home.value :
       \E i \in DOMAIN store : NormalisedFrom(home.value[k], store[i])

\* C21 witness: a post whose entry has neither description nor updatedDate
\* is listed and is on the home page.
C21_Witness ==
  /\ listing.built /\ home.built
  /\ \E i \in DOMAIN store :
       /\ store[i].description = << >> /\ store[i].updatedDate = << >>
       /\ \E k \in DOMAIN Listed : Listed[k].slug = store[i].slug
       /\ \E k \in DOMAIN home.value : home.value[k].slug = store[i].slug

\* The strings a rendered listing page carries.
Emitted(html) ==
  {html.title}
    \cup { html.anchors[a].href : a \in DOMAIN html.anchors }
    \cup UNION { {html.previews[k].title, html.previews[k].description} :
                 k \in DOMAIN html.previews }

\* A page whose posts are cut down to title, effective date and
\* description.
Exposed(page) ==
  [ page EXCEPT !.data =
      [ k \in DOMAIN page.data |->
          [ title       |-> page.data[k].title,
            date        |-> effectiveDate(page.data[k]),
            description |-> page.data[k].description ] ] ]

\* C22: no rendered listing page carries the body of a post, and the
\* rendered page is the one obtained from the titles, effective dates and
\* descriptions of its posts alone.
C22_ListingViewExposure ==
  listing.built =>
    \A n \in DOMAIN rendered :
      /\ \A i \in DOMAIN store : store[i].body \notin Emitted(rendered[n])
      /\ rendered[n] = Posts_page(Exposed(listing.value[n]))

\* C22 witness: a development build has rendered two listing pages, a
\* draft among their posts.
C22_Witness ==
  /\ listing.built /\ ~PROD
  /\ Len(rendered) >= 2
  /\ \E k \in DOMAIN Listed : Listed[k].draft /\ Listed[k].body # ""

\* C23 (as claimed): the entries enumerated for the card endpoint have
\* pairwise different slugs.
C23_CardSlugsUnique ==
  cardPaths.built =>
    \A i, j \in DOMAIN cardPaths.value :
      cardPaths.value[i].params.slug = cardPaths.value[j].params.slug => i = j

\* C24: the post list of the home page holds the first min(10, n) posts of
\* the sorted sequence, and they are the posts of listing page 1 (no post
\* at all where the listing has no page).
C24_HomeIsFirstPage ==
  (home.built /\ listing.built) =>
    /\ Len(home.value) = Min(MAX_POSTS, Cardinality(Loaded))
    /\ home.value = SubSeq(Listed, 1, Len(home.value))
    /\ IF listing.value = << >> THEN home.value = << >>
       ELSE home.value = listing.value[1].data

\* C24 witness: more than ten posts are listed, on two pages or more, and
\* the home page holds ten of them.
C24_Witness ==
  /\ home.built /\ listing.built
  /\ Len(Listed) > MAX_POSTS
  /\ Len(listing.value) >= 2
  /\ Len(home.value) = MAX_POSTS

\* C25: the enumeration of the card endpoint always holds the entry of
\* the home page, with slug "index" and the fixed title, and holds nothing
\* else when no post is loaded or every loaded post declares an ogImage.
C25_IndexEntrySurvives ==
  cardPaths.built =>
    /\ Len(Paths) >= 1
    /\ Cardinality(IndexPaths) = 1
    /\ (\A i \in Loaded : truthy(store[i].ogImage)) =>
         /\ Len(Paths) = 1
         /\ Paths[1].params.slug = "index"
         /\ Paths[1].props.title = "LLMs, RAGs, Agents and Applied AI"

\* C25 witness: every loaded post declares an ogImage, there is one at
\* least, and the home page's entry is the whole enumeration.
C25_Witness ==
  /\ cardPaths.built
  /\ Loaded # {}
  /\ \A i \in Loaded : truthy(store[i].ogImage)
  /\ Len(Paths) = 1
  /\ Paths[1].params.slug = INDEX_SLUG

\* Rows of the selected schema whose selected metric has a value.
KeptRows ==
  { i \in DOMAIN data[jsonChart.selectedSchema] :
      data[jsonChart.selectedSchema][i][jsonChart.selectedMetric] # null }

\* C26: whatever was selected, the chart displays exactly the methods of
\* the selected schema that have a value for the selected metric, in the
\* table's order; no displayed row is null there, and with successRate
\* all six methods are displayed.
C26_DisplayedRows ==
  LET rows == data[jsonChart.selectedSchema]
      shown == jsonChart.chartData
  IN  /\ Len(shown) = Cardinality(KeptRows)
      /\ \A i \in KeptRows : \E k \in DOMAIN shown : shown[k] = rows[i]
      /\ \A k \in DOMAIN shown :
           /\ shown[k][jsonChart.selectedMetric] # null
           /\ \E i \in KeptRows : shown[k] = rows[i]
      /\ \A k, l \in DOMAIN shown :
           k < l => \E i, j \in KeptRows :
                      i < j /\ shown[k] = rows[i] /\ shown[l] = rows[j]
      /\ jsonChart.selectedMetric = "successRate" => Len(shown) = 6

\* C26 witness: schema and metric were both changed and two methods
\* without a cost are left out.
C26_Witness ==
  /\ jsonChart.selectedSchema = "Super Complex JSON Schema"
  /\ jsonChart.selectedMetric = "cost"
  /\ Len(jsonChart.chartData) = 4

\* C27: the chart starts with schema "Complex JSON Schema" and metric
\* "time"; a schema selection leaves the metric as it is, a metric
\* selection leaves the schema as it is, and the table never changes.
C27_SelectionsIndependent ==
  /\ jsonChart.selectedSchema = "Complex JSON Schema"
  /\ jsonChart.selectedMetric = "time"
  /\ [] (jsonChart.data = data)
  /\ [][ /\ (\E value \in SchemaType : handleSchemaChange(value))
              => jsonChart'.selectedMetric = jsonChart.selectedMetric
         /\ (\E value \in MetricType : handleMetricChange(value))
              => jsonChart'.selectedSchema = jsonChart.selectedSchema
         /\ ~ ( /\ jsonChart'.selectedSchema # jsonChart.selectedSchema
                /\ jsonChart'.selectedMetric # jsonChart.selectedMetric )
         /\ jsonChart'.data = jsonChart.data ]_vars

\* C27 witness: both selections differ from the initial ones, the table
\* is the module's.
C27_Witness ==
  /\ jsonChart.selectedSchema = "Wide JSON Schema"
  /\ jsonChart.selectedMetric = "cost"
  /\ jsonChart.data = data

\* The chart data has its 16 rows, n = 1..16 in order, computed from the
\* costs the sliders show.
RowsCurrent ==
  /\ DOMAIN parallel.data = 1..16
  /\ \A n \in 1..16 : parallel.data[n].subschemas = n
  /\ parallel.data = generateData(parallel.baseCost, parallel.schemaCost)

\* C28: once no effect is scheduled the chart data is the 16 rows of the
\* current costs, and that is the case again and again whatever the
\* sliders do.
C28_DataEventuallyCurrent ==
  /\ [] (parallel.effect = << >> => RowsCurrent)
  /\ []<> RowsCurrent

\* C28 witness: both sliders were moved and the data is that of their
\* values.
C28_Witness ==
  /\ parallel.baseCost # Frac(SLIDER_DEFAULT, 10)
  /\ parallel.schemaCost # Frac(SLIDER_DEFAULT, 10)
  /\ parallel.effect = << >>
  /\ RowsCurrent

\* a = b + c * n, on fractions, by cross-multiplication.
IsSumOf(a, b, c, n) ==
  a.num * b.den * c.den = a.den * (b.num * c.den + c.num * n * b.den)

\* C29: the sliders give positive costs; the row for n has totalCost
\* baseCost + schemaCost * n, which grows with n; the row for n = 1 has
\* speedup 1; no number of a row comes from a division by zero.
C29_RowArithmetic ==
  /\ parallel.baseCost.num > 0 /\ parallel.schemaCost.num > 0
  /\ \A n \in DOMAIN parallel.data :
       /\ parallel.data[n].speedup.den # 0
       /\ parallel.data[n].efficiency.den # 0
       /\ parallel.data[n].totalCost.den # 0
       /\ n > 1 => LessThan(parallel.data[n - 1].totalCost,
                            parallel.data[n].totalCost)
  /\ parallel.data # << >> => Equals(parallel.data[1].speedup, Num(1))
  /\ (parallel.effect = << >>) =>
       \A n \in DOMAIN parallel.data :
         IsSumOf(parallel.data[n].totalCost, parallel.baseCost,
                 parallel.schemaCost, n)

\* C29 witness: both sliders are at their minimum, 0.1, and the rows are
\* those of that position.
C29_Witness ==
  /\ parallel.baseCost = [ num |-> 1, den |-> 10 ]
  /\ parallel.schemaCost = [ num |-> 1, den |-> 10 ]
  /\ parallel.effect = << >>
  /\ Len(parallel.data) = 16

\* Methods called on the Cal api by the run of a mount, in order.
CallsOf(run) ==
  LET own == SelectSeq(cal.calls, LAMBDA c : c.run = run)
  IN  [ k \in DOMAIN own |-> own[k].method ]

\* C30: the run of a mount calls "floatingButton" and then "ui", once, or
\* nothing; it has called only if its api handle had been obtained, and
\* every call is issued by a run that holds the handle.
C30_ConfiguredOnceAfterApi ==
  /\ [] ( \A run \in 1..MaxMounts :
            /\ CallsOf(run) \in { << >>, << "floatingButton", "ui" >> }
            /\ CallsOf(run) # << >> =>
                 (run \in DOMAIN cal.runs /\ cal.runs[run] = "configured") )
  /\ [][ cal'.calls # cal.calls =>
           \E run \in DOMAIN cal.runs :
             /\ cal.runs[run] = "resolved"
             /\ cal'.runs[run] = "configured"
             /\ cal'.calls = cal.calls \o << CalCall(run, "floatingButton"),
                                             CalCall(run, "ui") >> ]_vars

\* C30 witness: two mounts were configured, the later one first.
C30_Witness ==
  /\ Len(cal.calls) = 4
  /\ cal.calls[1].run = 2
  /\ cal.calls[3].run = 1

====
